---- MODULE Spec2Model ----
(***************************************************************************)
(* Model of the EmailValidator class of dev/email-validator.ipynb.         *)
(*                                                                         *)
(* A character is its ASCII code, a string is a sequence of codes, and an  *)
(* optional string (a Python attribute that may be None) is a sequence of  *)
(* at most one string: <<>> is None, <<s>> is the string s.                *)
(*                                                                         *)
(* A regular expression is an operator (s, i) that returns, in the order   *)
(* in which Python's backtracking matcher tries them, the positions at     *)
(* which a match that starts at position i of s can end (a position is the *)
(* index of the next character to read, from 1).  The head of the sequence *)
(* is the match `re` reports when nothing follows the expression.          *)
(***************************************************************************)
EXTENDS Integers, Sequences, FiniteSets

\* ------------------------------------------------------------------------
\* Characters the code names literally
\* ------------------------------------------------------------------------
AT == 64
DQUOTE == 34
DOT == 46
HYPHEN == 45
LBRACKET == 91
RBRACKET == 93
LPAREN == 40
RPAREN == 41
BACKSLASH == 92
CR == 13
LF == 10

\* ------------------------------------------------------------------------
\* Regular-expression combinators (greedy, backtracking order)
\* ------------------------------------------------------------------------
Char(P(_), s, i) == IF i <= Len(s) /\ P(s[i]) THEN <<i + 1>> ELSE <<>>

Lit(c, s, i) == IF i <= Len(s) /\ s[i] = c THEN <<i + 1>> ELSE <<>>

\* the ends of F started at each of `ends`, in order
FlatMap(ends, F(_)) ==
    LET RECURSIVE go(_, _)
        go(lo, hi) ==
            IF lo > hi THEN <<>>
            ELSE IF lo = hi THEN F(ends[lo])
            ELSE LET mid == (lo + hi) \div 2
                 IN  go(lo, mid) \o go(mid + 1, hi)
    IN  go(1, Len(ends))

\* R? : first with R, then without
Opt(R(_), i) == R(i) \o <<i>>

\* the positions a, next(a), next(next(a)), ... that are below b, for a
\* next that moves forward; computed by halving the range
Orbit(next(_), a, b) ==
    LET RECURSIVE go(_, _)
        go(lo, hi) ==
            IF lo >= hi THEN <<>>
            ELSE IF hi = lo + 1 THEN <<lo>>
            ELSE LET more(left) == left \o go(next(left[Len(left)]), hi)
                 IN  more(go(lo, (lo + hi) \div 2))
    IN  go(a, b)

Reverse(q) == [m \in 1..Len(q) |-> q[Len(q) + 1 - m]]

\* R* : as many R as possible first, fewer on backtracking (an iteration
\* that matches the empty string ends the repetition).  Where R can end at
\* one position only, the ends are the chain of iterations, last one first;
\* where it can end at several, each is continued in turn.
Star(R(_), s, i) ==
    LET stop == Len(s) + 2
        fwd(j) == SelectSeq(R(j), LAMBDA e : e > j)
        only(es) == IF Len(es) = 1 THEN es[1] ELSE stop
        step(j) == only(fwd(j))
        RECURSIVE go(_)
        go(j) == LET rest(chain) == FlatMap(fwd(chain[Len(chain)]), go) \o Reverse(chain)
                 IN  rest(Orbit(step, j, stop))
    IN  go(i)

\* R+
Plus(R(_), s, i) == FlatMap(R(i), LAMBDA e : Star(R, s, e))

\* the position after the longest run of characters of class P from i
RunEnd(P(_), s, i) ==
    CHOOSE j \in i..(Len(s) + 1) :
        /\ j = Len(s) + 1 \/ ~P(s[j])
        /\ \A k \in i..(j - 1) : P(s[k])

\* [P]* for a character class P: the longest run first, then shorter ones
StarChar(P(_), s, i) ==
    LET e == RunEnd(P, s, i)
    IN  [m \in 1..(e - i + 1) |-> e + 1 - m]

\* [P]+ for a character class P
PlusChar(P(_), s, i) ==
    LET e == RunEnd(P, s, i)
    IN  [m \in 1..(e - i) |-> e + 1 - m]

\* `$` without re.MULTILINE: the end of the string, or just before a final newline
AtDollar(s, i) == i = Len(s) + 1 \/ (i = Len(s) /\ s[i] = LF)

\* ------------------------------------------------------------------------
\* The grammar (RFC 5322 subset)
\* ------------------------------------------------------------------------
\* \s of a str pattern, restricted to ASCII
WSP(c) == c \in (9..13) \cup (28..32)

CRLF(s, i) == FlatMap(Lit(CR, s, i), LAMBDA e : Lit(LF, s, e))

\* `.` matches any character but a newline
QUOTED_PAIR(s, i) == FlatMap(Lit(BACKSLASH, s, i), LAMBDA e : Char(LAMBDA c : c # LF, s, e))

FWS(s, i) ==
    FlatMap(Opt(LAMBDA j : FlatMap(StarChar(WSP, s, j),
                                   LAMBDA e : CRLF(s, e)), i),
            LAMBDA e : PlusChar(WSP, s, e))

CTEXT(c) == c \in (33..39) \cup (42..91) \cup (93..126)

CCONTENT(s, i) == Char(CTEXT, s, i) \o QUOTED_PAIR(s, i)

COMMENT(s, i) ==
    FlatMap(Lit(LPAREN, s, i), LAMBDA a :
    FlatMap(Star(LAMBDA j : FlatMap(Opt(LAMBDA k : FWS(s, k), j),
                                    LAMBDA e : CCONTENT(s, e)), s, a), LAMBDA b :
    FlatMap(Opt(LAMBDA k : FWS(s, k), b), LAMBDA c :
    Lit(RPAREN, s, c))))

CFWS(s, i) ==
    FlatMap(Plus(LAMBDA j : FlatMap(Opt(LAMBDA k : FWS(s, k), j),
                                    LAMBDA e : COMMENT(s, e)), s, i),
            LAMBDA e : Opt(LAMBDA k : FWS(s, k), e))
    \o FWS(s, i)

ATEXT(c) ==
    \/ c \in 97..122
    \/ c \in 65..90
    \/ c \in 48..57
    \/ c \in {33, 35, 36, 37, 38, 39, 42, 43, 45, 47, 61, 63, 94, 95, 96, 123, 124, 125, 126}

DOT_ATOM_TEXT(s, i) ==
    FlatMap(PlusChar(ATEXT, s, i), LAMBDA a :
    Star(LAMBDA j : FlatMap(Lit(DOT, s, j),
                            LAMBDA e : PlusChar(ATEXT, s, e)), s, a))

DOT_ATOM(s, i) ==
    FlatMap(Opt(LAMBDA k : CFWS(s, k), i), LAMBDA a :
    FlatMap(DOT_ATOM_TEXT(s, a), LAMBDA b :
    Opt(LAMBDA k : CFWS(s, k), b)))

QTEXT(c) == c \in {33} \cup (35..91) \cup (93..126)

QCONTENT(s, i) == Char(QTEXT, s, i) \o QUOTED_PAIR(s, i)

QUOTED_STRING(s, i) ==
    FlatMap(Opt(LAMBDA k : CFWS(s, k), i), LAMBDA a :
    FlatMap(Lit(DQUOTE, s, a), LAMBDA b :
    FlatMap(Star(LAMBDA j : FlatMap(Opt(LAMBDA k : FWS(s, k), j),
                                    LAMBDA e : QCONTENT(s, e)), s, b), LAMBDA c :
    FlatMap(Opt(LAMBDA k : FWS(s, k), c), LAMBDA d :
    FlatMap(Lit(DQUOTE, s, d), LAMBDA f :
    Opt(LAMBDA k : CFWS(s, k), f))))))

LOCAL_PART(s, i) == DOT_ATOM(s, i) \o QUOTED_STRING(s, i)

\* DTEXT as its comment describes it: printable characters but `(`, `)`, `\`
DTEXT_no_parentheses(c) == c \in (33..126) \ {LPAREN, RPAREN, BACKSLASH}

DTEXT(c) == c \in (33..90) \cup (94..126)

DOMAIN_LITERAL(s, i) ==
    FlatMap(Opt(LAMBDA k : CFWS(s, k), i), LAMBDA a :
    FlatMap(Lit(LBRACKET, s, a), LAMBDA b :
    FlatMap(Star(LAMBDA j : FlatMap(Opt(LAMBDA k : FWS(s, k), j),
                                    LAMBDA e : Char(DTEXT, s, e)), s, b), LAMBDA c :
    FlatMap(Opt(LAMBDA k : FWS(s, k), c), LAMBDA d :
    FlatMap(Lit(RBRACKET, s, d), LAMBDA f :
    Opt(LAMBDA k : CFWS(s, k), f))))))

\* DOMAIN of the source (DOMAIN is a reserved word)
DOMAIN_RE(s, i) == DOT_ATOM(s, i) \o DOMAIN_LITERAL(s, i)

ADDR_SPEC(s, i) ==
    FlatMap(LOCAL_PART(s, i), LAMBDA a :
    FlatMap(Lit(AT, s, a), LAMBDA b :
    DOMAIN_RE(s, b)))

\* ------------------------------------------------------------------------
\* Compiled patterns and the two ways the code uses them
\* ------------------------------------------------------------------------
\* pattern.search(s) for a pattern `^R$`: the end of the match, if any
\* (<<>> is None); `^` only matches at the start of the string
SearchAnchored(R(_, _), s) == 
    LET ends == SelectSeq(R(s, 1), LAMBDA e : AtDollar(s, e))
    IN  IF ends = <<>> THEN <<>> ELSE <<Head(ends)>>

\* pattern.findall(s) for a pattern `^R$`: at most the one match
FindallAnchored(R(_, _), s) ==
    LET m == SearchAnchored(R, s)
    IN  IF m = <<>> THEN <<>> ELSE <<SubSeq(s, 1, m[1] - 1)>>

\* pattern.findall(s) for an unanchored pattern R: the non-overlapping
\* matches, scanning from the left
Findall(R(_, _), s) ==
    LET found(ends, i) == IF ends = <<>> THEN <<>> ELSE <<SubSeq(s, i, Head(ends) - 1)>>
        \* where the scan resumes after position i: after the match, or one
        \* character on when there is none or it is empty
        after(ends, i) == IF ends = <<>> \/ Head(ends) = i THEN i + 1 ELSE Head(ends)
    IN  FlatMap(Orbit(LAMBDA i : after(R(s, i), i), 1, Len(s) + 2),
                LAMBDA i : found(R(s, i), i))

\* VALID_ADDRESS_PATTERN.search(s) is not None
VALID_ADDRESS_PATTERN(s) == SearchAnchored(ADDR_SPEC, s) # <<>>

\* UNQUOTED_LOCAL_PART_DOTS_PATTERN.search(s) is not None:  ^\.|\.{2,}|\.$
UNQUOTED_LOCAL_PART_DOTS_PATTERN(s) ==
    \/ Lit(DOT, s, 1) # <<>>
    \/ \E i \in 1..Len(s) : Lit(DOT, s, i) # <<>> /\ Lit(DOT, s, i + 1) # <<>>
    \/ \E i \in 1..Len(s) : Lit(DOT, s, i) # <<>> /\ AtDollar(s, i + 1)

\* UNQUOTED_LOCAL_PART_PATTERN.findall(s)
UNQUOTED_LOCAL_PART_PATTERN(s) == Findall(DOT_ATOM, s)

\* QUOTED_LOCAL_PART_PATTERN.findall(s)
QUOTED_LOCAL_PART_PATTERN(s) == FindallAnchored(QUOTED_STRING, s)

\* DOMAIN_DNS_LABEL_DOTS_PATTERN.search(s) is not None:  \.{2,}
DOMAIN_DNS_LABEL_DOTS_PATTERN(s) ==
    \E i \in 1..Len(s) : Lit(DOT, s, i) # <<>> /\ Lit(DOT, s, i + 1) # <<>>

\* DOMAIN_DNS_LABEL_HYPHENS_PATTERN.search(s) is not None:  ^-|-$
DOMAIN_DNS_LABEL_HYPHENS_PATTERN(s) ==
    \/ Lit(HYPHEN, s, 1) # <<>>
    \/ \E i \in 1..Len(s) : Lit(HYPHEN, s, i) # <<>> /\ AtDollar(s, i + 1)

\* DOMAIN_NAME_PATTERN.findall(s)
DOMAIN_NAME_PATTERN(s) == UNQUOTED_LOCAL_PART_PATTERN(s)

\* DOMAIN_LITERAL_PATTERN.search(s) is not None
DOMAIN_LITERAL_PATTERN(s) == SearchAnchored(DOMAIN_LITERAL, s) # <<>>

EMAIL_ADDRESS_MAX_LENGTH == 254
LOCAL_PART_MAX_LENGTH == 64
DOMAIN_MAX_LENGTH == 255
DNS_LABEL_MAX_LENGHT == 64

\* ------------------------------------------------------------------------
\* Python built-ins the code relies on
\* ------------------------------------------------------------------------
\* ''.join(list of strings)
Join(ss) == FlatMap(ss, LAMBDA x : x)

\* set(s)
CharSet(s) == {s[i] : i \in 1..Len(s)}

\* sorted(S) that puts the greatest character first
RECURSIVE Sorted_desc(_)
Sorted_desc(S) ==
    IF S = {} THEN <<>>
    ELSE LET m == CHOOSE x \in S : \A y \in S : x >= y
         IN  <<m>> \o Sorted_desc(S \ {m})

\* sorted(S) for a set of characters
RECURSIVE Sorted(_)
Sorted(S) ==
    IF S = {} THEN <<>>
    ELSE LET m == CHOOSE x \in S : \A y \in S : x <= y
         IN  <<m>> \o Sorted(S \ {m})

\* s.count(c)
Count(s, c) == Cardinality({i \in 1..Len(s) : s[i] = c})

\* s.startswith(c) and s.endswith(c) for a one-character c
StartsWith(s, c) == Len(s) > 0 /\ s[1] = c
EndsWith(s, c) == Len(s) > 0 /\ s[Len(s)] = c

\* the index of the last c in s, 0 when there is none
LastIndex(s, c) ==
    IF \E i \in 1..Len(s) : s[i] = c
    THEN CHOOSE i \in 1..Len(s) : s[i] = c /\ \A j \in (i + 1)..Len(s) : s[j] # c
    ELSE 0

\* s.partition(c) in the place of s.rpartition(c): the split at the first c
Partition_first(s, c) ==
    IF \E i \in 1..Len(s) : s[i] = c
    THEN LET k == CHOOSE i \in 1..Len(s) : s[i] = c /\ \A j \in 1..(i - 1) : s[j] # c
         IN  << SubSeq(s, 1, k - 1), SubSeq(s, k + 1, Len(s)) >>
    ELSE << <<>>, s >>

\* s.rpartition(c): <<head, tail>> (the separator is discarded by the callers)
RPartition(s, c) ==
    LET k == LastIndex(s, c)
    IN  IF k = 0 THEN << <<>>, s >>
        ELSE << SubSeq(s, 1, k - 1), SubSeq(s, k + 1, Len(s)) >>

\* s.split(c): the pieces between the occurrences of c
RECURSIVE Split(_, _)
Split(s, c) ==
    LET k == LastIndex(s, c)
    IN  IF k = 0 THEN <<s>>
        ELSE Append(Split(SubSeq(s, 1, k - 1), c), SubSeq(s, k + 1, Len(s)))

\* s.lower(), ASCII
Lower(s) == [i \in 1..Len(s) |-> IF s[i] \in 65..90 THEN s[i] + 32 ELSE s[i]]

\* ------------------------------------------------------------------------
\* Values, exceptions and the frame of a call
\* ------------------------------------------------------------------------
\* An argument given by a caller: None, a string, or a value of another
\* type, which the code only ever uses through str(): [tag, val] where val is
\* the text str() gives.
None == [tag |-> "none", val |-> <<78, 111, 110, 101>>]
StrVal(s) == [tag |-> "str", val |-> s]
ObjVal(s) == [tag |-> "obj", val |-> s]

\* str(x)
Str(x) == x.val

\* `a != b` for an argument a and a str attribute b that is not None
NotEqual(x, s) == ~(x.tag = "str" /\ x.val = s)

\* No exception pending
NoExc == [type |-> "", msg |-> "", args |-> <<>>]

\* An exception: its class, the text of its message with {} for each
\* interpolated value, and the interpolated values in order (a number n is
\* written <<n>>)
Exc(type, msg, args) == [type |-> type, msg |-> msg, args |-> args]

AddressNotSetError(msg, args) == Exc("AddressNotSetError", msg, args)
NotValidEmailAddressSyntaxError(msg, args) == Exc("NotValidEmailAddressSyntaxError", msg, args)
LocalPartSyntaxError(msg, args) == Exc("LocalPartSyntaxError", msg, args)
DomainSyntaxError(msg, args) == Exc("DomainSyntaxError", msg, args)

\* The frame threaded through the methods of one call: the instance, the
\* exception being raised (NoExc when none), what was printed, and the
\* methods entered so far.
Frame(self) == [self |-> self, exc |-> NoExc, out |-> <<>>, calls |-> <<>>]
Raise(fr, e) == [fr EXCEPT !.exc = e]
Emit(fr, line, e) == [fr EXCEPT !.out = Append(@, [line |-> line, exc |-> e])]
Enter(fr, name) == [fr EXCEPT !.calls = Append(@, name)]

\* Iteration order of a Python set of one-character strings.  It depends on
\* the string hashes, which are randomised per process (PYTHONHASHSEED): the
\* model lets a process have one of two orders.
SetOrder(S, seed) ==
    LET up == Sorted(S)
    IN  IF seed = 0 THEN up ELSE [i \in 1..Len(up) |-> up[Len(up) + 1 - i]]

\* ------------------------------------------------------------------------
\* class EmailValidator
\* ------------------------------------------------------------------------
\* __init__ that lets the whole address be one character longer
EmailValidator_longer(arg) ==
    [email_address_set_at_init |-> arg # None,
     email_address |-> IF arg # None THEN <<Lower(Str(arg))>> ELSE <<>>,
     local_part |-> <<>>,
     domain |-> <<>>,
     dns_labels |-> <<>>,
     email_address_max_length |-> EMAIL_ADDRESS_MAX_LENGTH + 1,
     local_part_max_length |-> LOCAL_PART_MAX_LENGTH,
     domain_max_length |-> DOMAIN_MAX_LENGTH,
     dns_label_max_length |-> DNS_LABEL_MAX_LENGHT]

\* __init__(email_address): the fields of the new instance
EmailValidator(arg) ==
    [email_address_set_at_init |-> arg # None,
     email_address |-> IF arg # None THEN <<Lower(Str(arg))>> ELSE <<>>,
     local_part |-> <<>>,
     domain |-> <<>>,
     dns_labels |-> <<>>,
     email_address_max_length |-> EMAIL_ADDRESS_MAX_LENGTH,
     local_part_max_length |-> LOCAL_PART_MAX_LENGTH,
     domain_max_length |-> DOMAIN_MAX_LENGTH,
     dns_label_max_length |-> DNS_LABEL_MAX_LENGHT]

\* _is_call_valid(attr): the frame after it (a warning is printed when attr
\* is None); its result is attr # <<>>
is_call_valid(fr, attr) ==
    IF attr = <<>>
    THEN Emit(fr, "WARNING: This private method must not be called directly.", NoExc)
    ELSE fr

\* _validate_base that goes on to split an address that has no `@`
validate_base_no_count(fr0, simple) ==
    LET fr   == is_call_valid(Enter(fr0, "_validate_base"), fr0.self.email_address)
        addr == fr.self.email_address[1]
        rp   == RPartition(addr, AT)
        bad  == NotValidEmailAddressSyntaxError("Invalid syntax for address {}", <<addr>>)
    IN  IF fr.self.email_address = <<>> THEN fr
        ELSE IF Len(addr) > fr.self.email_address_max_length
        THEN Raise(fr, NotValidEmailAddressSyntaxError(
                 "The address can not be longet than {} characters",
                 << <<fr.self.email_address_max_length>> >>))
        ELSE IF simple
        THEN IF ~VALID_ADDRESS_PATTERN(addr) THEN Raise(fr, bad)
             ELSE IF Len(rp[1]) > fr.self.local_part_max_length
                     \/ Len(rp[2]) > fr.self.domain_max_length
             THEN Raise(fr, bad)
             ELSE fr
        ELSE [fr EXCEPT !.self.local_part = <<rp[1]>>, !.self.domain = <<rp[2]>>]

\* _validate_base whose fast branch measures the parts around the first `@`
validate_base_first_at(fr0, simple) ==
    LET fr   == is_call_valid(Enter(fr0, "_validate_base"), fr0.self.email_address)
        addr == fr.self.email_address[1]
        rp   == RPartition(addr, AT)
        fp   == Partition_first(addr, AT)
        bad  == NotValidEmailAddressSyntaxError("Invalid syntax for address {}", <<addr>>)
    IN  IF fr.self.email_address = <<>> THEN fr
        ELSE IF Len(addr) > fr.self.email_address_max_length
        THEN Raise(fr, NotValidEmailAddressSyntaxError(
                 "The address can not be longet than {} characters",
                 << <<fr.self.email_address_max_length>> >>))
        ELSE IF simple
        THEN IF ~VALID_ADDRESS_PATTERN(addr) THEN Raise(fr, bad)
             ELSE IF Len(fp[1]) > fr.self.local_part_max_length
                     \/ Len(fp[2]) > fr.self.domain_max_length
             THEN Raise(fr, bad)
             ELSE fr
        ELSE IF Count(addr, AT) = 0
             THEN Raise(fr, NotValidEmailAddressSyntaxError(
                      "Expecting address syntax like localpart@domainname", <<>>))
             ELSE [fr EXCEPT !.self.local_part = <<rp[1]>>, !.self.domain = <<rp[2]>>]

\* _validate_base without the check of the length of the whole address
validate_base_no_length(fr0, simple) ==
    LET fr   == is_call_valid(Enter(fr0, "_validate_base"), fr0.self.email_address)
        addr == fr.self.email_address[1]
        rp   == RPartition(addr, AT)
        bad  == NotValidEmailAddressSyntaxError("Invalid syntax for address {}", <<addr>>)
    IN  IF fr.self.email_address = <<>> THEN fr
        ELSE IF simple
        THEN IF ~VALID_ADDRESS_PATTERN(addr) THEN Raise(fr, bad)
             ELSE IF Len(rp[1]) > fr.self.local_part_max_length
                     \/ Len(rp[2]) > fr.self.domain_max_length
             THEN Raise(fr, bad)
             ELSE fr
        ELSE IF Count(addr, AT) = 0
             THEN Raise(fr, NotValidEmailAddressSyntaxError(
                      "Expecting address syntax like localpart@domainname", <<>>))
             ELSE [fr EXCEPT !.self.local_part = <<rp[1]>>, !.self.domain = <<rp[2]>>]

validate_base(fr0, simple) ==
    LET fr   == is_call_valid(Enter(fr0, "_validate_base"), fr0.self.email_address)
        addr == fr.self.email_address[1]
        rp   == RPartition(addr, AT)
        bad  == NotValidEmailAddressSyntaxError("Invalid syntax for address {}", <<addr>>)
    IN  IF fr.self.email_address = <<>> THEN fr
        ELSE IF Len(addr) > fr.self.email_address_max_length
        THEN Raise(fr, NotValidEmailAddressSyntaxError(
                 "The address can not be longet than {} characters",
                 << <<fr.self.email_address_max_length>> >>))
        ELSE IF simple
        THEN IF ~VALID_ADDRESS_PATTERN(addr) THEN Raise(fr, bad)
             ELSE IF Len(rp[1]) > fr.self.local_part_max_length
                     \/ Len(rp[2]) > fr.self.domain_max_length
             THEN Raise(fr, bad)
             ELSE fr
        ELSE IF Count(addr, AT) = 0
             THEN Raise(fr, NotValidEmailAddressSyntaxError(
                      "Expecting address syntax like localpart@domainname", <<>>))
             ELSE [fr EXCEPT !.self.local_part = <<rp[1]>>, !.self.domain = <<rp[2]>>]

\* _find_invalid_chars(text, pattern), pattern given by its findall; the
\* result in the order in which ''.join() iterates over it
find_invalid_chars(text, findall(_), seed) ==
    LET valid_characters == Join(findall(text))
    IN  IF valid_characters # <<>>
        THEN SetOrder(CharSet(text) \ CharSet(valid_characters), seed)
        ELSE Sorted(CharSet(text))

\* _validate_local_part_quoted without the count of the `"` characters
validate_local_part_quoted_no_count(fr0, seed) ==
    LET fr == is_call_valid(Enter(fr0, "_validate_local_part_quoted"), fr0.self.local_part)
        lp == fr.self.local_part[1]
    IN  IF fr.self.local_part = <<>> THEN fr
        ELSE LET report(invalid_chars) ==
                     IF invalid_chars # <<>>
                     THEN Raise(fr, LocalPartSyntaxError(
                              "Invalid syntax for quoted local part {}. It contains the following non-valid characters: {}",
                              <<lp, invalid_chars>>))
                     ELSE fr
             IN  report(find_invalid_chars(lp, QUOTED_LOCAL_PART_PATTERN, seed))

validate_local_part_quoted(fr0, seed) ==
    LET fr == is_call_valid(Enter(fr0, "_validate_local_part_quoted"), fr0.self.local_part)
        lp == fr.self.local_part[1]
    IN  IF fr.self.local_part = <<>> THEN fr
        ELSE IF Count(lp, DQUOTE) > 2
        THEN Raise(fr, LocalPartSyntaxError(
                 "Invalid syntax for quoted local part {}. It must contain only one quoted string",
                 <<lp>>))
        ELSE LET report(invalid_chars) ==
                     IF invalid_chars # <<>>
                     THEN Raise(fr, LocalPartSyntaxError(
                              "Invalid syntax for quoted local part {}. It contains the following non-valid characters: {}",
                              <<lp, invalid_chars>>))
                     ELSE fr
             IN  report(find_invalid_chars(lp, QUOTED_LOCAL_PART_PATTERN, seed))

\* _validate_local_part_unquoted without the test of the dot placement
validate_local_part_unquoted_no_dots(fr0, seed) ==
    LET fr == is_call_valid(Enter(fr0, "_validate_local_part_unquoted"), fr0.self.local_part)
        lp == fr.self.local_part[1]
    IN  IF fr.self.local_part = <<>> THEN fr
        ELSE LET report(invalid_chars) ==
                     IF invalid_chars # <<>>
                     THEN Raise(fr, LocalPartSyntaxError(
                              "Invalid syntax for unquoted local part {}. It contains the following non-valid characters: {}",
                              <<lp, invalid_chars>>))
                     ELSE fr
             IN  report(find_invalid_chars(lp, UNQUOTED_LOCAL_PART_PATTERN, seed))

validate_local_part_unquoted(fr0, seed) ==
    LET fr == is_call_valid(Enter(fr0, "_validate_local_part_unquoted"), fr0.self.local_part)
        lp == fr.self.local_part[1]
    IN  IF fr.self.local_part = <<>> THEN fr
        ELSE IF UNQUOTED_LOCAL_PART_DOTS_PATTERN(lp)
        THEN Raise(fr, LocalPartSyntaxError(
                 "Invalid syntax for local part {}. Unquoted local parts cannot either begin, end, or have two or more consecutive dot . characters.",
                 <<lp>>))
        ELSE LET report(invalid_chars) ==
                     IF invalid_chars # <<>>
                     THEN Raise(fr, LocalPartSyntaxError(
                              "Invalid syntax for unquoted local part {}. It contains the following non-valid characters: {}",
                              <<lp, invalid_chars>>))
                     ELSE fr
             IN  report(find_invalid_chars(lp, UNQUOTED_LOCAL_PART_PATTERN, seed))

\* _validate_local_part that sends every local-part to the unquoted branch
validate_local_part_unquoted_only(fr0, seed) ==
    LET fr == is_call_valid(Enter(fr0, "_validate_local_part"), fr0.self.local_part)
        lp == fr.self.local_part[1]
    IN  IF fr.self.local_part = <<>> THEN fr
        ELSE IF Len(lp) > fr.self.local_part_max_length
        THEN Raise(fr, LocalPartSyntaxError(
                 "The local part cannot be longer than {} characters",
                 << <<fr.self.local_part_max_length>> >>))
        ELSE validate_local_part_unquoted(fr, seed)

\* _validate_local_part with >= in the place of > in the length check
validate_local_part_off_by_one(fr0, seed) ==
    LET fr == is_call_valid(Enter(fr0, "_validate_local_part"), fr0.self.local_part)
        lp == fr.self.local_part[1]
    IN  IF fr.self.local_part = <<>> THEN fr
        ELSE IF Len(lp) >= fr.self.local_part_max_length
        THEN Raise(fr, LocalPartSyntaxError(
                 "The local part cannot be longer than {} characters",
                 << <<fr.self.local_part_max_length>> >>))
        ELSE IF StartsWith(lp, DQUOTE) /\ EndsWith(lp, DQUOTE)
        THEN validate_local_part_quoted(fr, seed)
        ELSE validate_local_part_unquoted(fr, seed)

validate_local_part(fr0, seed) ==
    LET fr == is_call_valid(Enter(fr0, "_validate_local_part"), fr0.self.local_part)
        lp == fr.self.local_part[1]
    IN  IF fr.self.local_part = <<>> THEN fr
        ELSE IF Len(lp) > fr.self.local_part_max_length
        THEN Raise(fr, LocalPartSyntaxError(
                 "The local part cannot be longer than {} characters",
                 << <<fr.self.local_part_max_length>> >>))
        ELSE IF StartsWith(lp, DQUOTE) /\ EndsWith(lp, DQUOTE)
        THEN validate_local_part_quoted(fr, seed)
        ELSE validate_local_part_unquoted(fr, seed)

validate_domain_literal(fr0) ==
    LET fr == is_call_valid(Enter(fr0, "_validate_domain_literal"), fr0.self.domain)
    IN  IF fr.self.domain = <<>> THEN fr
        ELSE IF ~DOMAIN_LITERAL_PATTERN(fr.self.domain[1])
        THEN Raise(fr, DomainSyntaxError("Invalid domain literal syntax", <<>>))
        ELSE fr

\* the loop over the labels with >= in the place of > in the length check
RECURSIVE LabelLoop_off_by_one(_, _, _, _)
LabelLoop_off_by_one(fr, labels, k, seed) ==
    IF k > Len(labels) THEN fr
    ELSE LET label == labels[k]
         IN  IF Len(label) >= fr.self.dns_label_max_length
             THEN Raise(fr, DomainSyntaxError(
                      "Invalid syntax for domain name {}. DNS labels cannot be longer than {} characters",
                      <<fr.self.domain[1], <<fr.self.dns_label_max_length>> >>))
             ELSE IF DOMAIN_DNS_LABEL_HYPHENS_PATTERN(label)
             THEN Raise(fr, DomainSyntaxError(
                      "Invalid syntax for domain name {}. DNS labels cannot either begin or end with a hyphen - character.",
                      <<fr.self.domain[1]>>))
             ELSE LET report(invalid_chars) ==
                          IF invalid_chars # <<>>
                          THEN Raise(fr, DomainSyntaxError(
                                   "Invalid format for domain name {}. The DNS label {} contains the following non-valid characters: {}",
                                   <<fr.self.domain[1], label, invalid_chars>>))
                          ELSE LabelLoop_off_by_one(fr, labels, k + 1, seed)
                  IN  report(find_invalid_chars(label, DOMAIN_NAME_PATTERN, seed))

\* the body of `for label in self.dns_labels`, from the k-th label on
RECURSIVE LabelLoop(_, _, _, _)
LabelLoop(fr, labels, k, seed) ==
    IF k > Len(labels) THEN fr
    ELSE LET label == labels[k]
         IN  IF Len(label) > fr.self.dns_label_max_length
             THEN Raise(fr, DomainSyntaxError(
                      "Invalid syntax for domain name {}. DNS labels cannot be longer than {} characters",
                      <<fr.self.domain[1], <<fr.self.dns_label_max_length>> >>))
             ELSE IF DOMAIN_DNS_LABEL_HYPHENS_PATTERN(label)
             THEN Raise(fr, DomainSyntaxError(
                      "Invalid syntax for domain name {}. DNS labels cannot either begin or end with a hyphen - character.",
                      <<fr.self.domain[1]>>))
             ELSE LET report(invalid_chars) ==
                          IF invalid_chars # <<>>
                          THEN Raise(fr, DomainSyntaxError(
                                   "Invalid format for domain name {}. The DNS label {} contains the following non-valid characters: {}",
                                   <<fr.self.domain[1], label, invalid_chars>>))
                          ELSE LabelLoop(fr, labels, k + 1, seed)
                  IN  report(find_invalid_chars(label, DOMAIN_NAME_PATTERN, seed))

\* _validate_LDH_domain without the test of the runs of dots
validate_LDH_domain_no_dots(fr0, seed) ==
    LET fr == is_call_valid(Enter(fr0, "_validate_LDH_domain"), fr0.self.domain)
        dom == fr.self.domain[1]
        fr1 == [fr EXCEPT !.self.dns_labels = <<Split(dom, DOT)>>]
    IN  IF fr.self.domain = <<>> THEN fr
        ELSE LabelLoop(fr1, fr1.self.dns_labels[1], 1, seed)

validate_LDH_domain(fr0, seed) ==
    LET fr == is_call_valid(Enter(fr0, "_validate_LDH_domain"), fr0.self.domain)
        dom == fr.self.domain[1]
        fr1 == [fr EXCEPT !.self.dns_labels = <<Split(dom, DOT)>>]
    IN  IF fr.self.domain = <<>> THEN fr
        ELSE IF DOMAIN_DNS_LABEL_DOTS_PATTERN(dom)
        THEN Raise(fr, DomainSyntaxError(
                 "Invalid format for domain name {}. DNS labels must be separated by a single dot . character.",
                 <<dom>>))
        ELSE LabelLoop(fr1, fr1.self.dns_labels[1], 1, seed)

validate_domain(fr0, seed) ==
    LET fr == is_call_valid(Enter(fr0, "_validate_domain"), fr0.self.domain)
        dom == fr.self.domain[1]
    IN  IF fr.self.domain = <<>> THEN fr
        ELSE IF Len(dom) > fr.self.domain_max_length
        THEN Raise(fr, DomainSyntaxError(
                 "Invalid syntax for domain name {}. It cannot be longer than {} characters",
                 <<dom, <<fr.self.domain_max_length>> >>))
        ELSE IF StartsWith(dom, LBRACKET) /\ EndsWith(dom, RBRACKET)
        THEN validate_domain_literal(fr)
        ELSE validate_LDH_domain(fr, seed)

\* validate that checks the domain before the local-part
validate_domain_first(fr0, arg, seed) ==
    LET fr  == Enter(fr0, "validate")
        fr1 == IF fr.self.email_address_set_at_init
                  /\ NotEqual(arg, fr.self.email_address[1])
               THEN Emit(fr, "WARNING: the email address {} was when instantiating the class", NoExc)
               ELSE fr
        after_first(fr3) == IF fr3.exc # NoExc THEN fr3 ELSE validate_local_part(fr3, seed)
        after_base(fr2) == IF fr2.exc # NoExc THEN fr2 ELSE after_first(validate_domain(fr2, seed))
    IN  IF arg = None /\ fr.self.email_address = <<>>
        THEN Raise(fr, AddressNotSetError(
                 "The address to validate must be set either when the class is instantiated or when this method is called.",
                 <<>>))
        ELSE after_base(validate_base([fr1 EXCEPT !.self.email_address = <<Lower(Str(arg))>>], FALSE))

\* validate that does not lowercase the address
validate_no_lower(fr0, arg, seed) ==
    LET fr  == Enter(fr0, "validate")
        fr1 == IF fr.self.email_address_set_at_init
                  /\ NotEqual(arg, fr.self.email_address[1])
               THEN Emit(fr, "WARNING: the email address {} was when instantiating the class", NoExc)
               ELSE fr
        after_first(fr3) == IF fr3.exc # NoExc THEN fr3 ELSE validate_domain(fr3, seed)
        after_base(fr2) == IF fr2.exc # NoExc THEN fr2 ELSE after_first(validate_local_part(fr2, seed))
    IN  IF arg = None /\ fr.self.email_address = <<>>
        THEN Raise(fr, AddressNotSetError(
                 "The address to validate must be set either when the class is instantiated or when this method is called.",
                 <<>>))
        ELSE after_base(validate_base([fr1 EXCEPT !.self.email_address = <<Str(arg)>>], FALSE))

\* validate(email_address) up to the assignment of self.email_address: the
\* test of the missing address, the warning and the assignment
validate_store(fr0, arg) ==
    LET fr  == Enter(fr0, "validate")
        fr1 == IF fr.self.email_address_set_at_init
                  /\ NotEqual(arg, fr.self.email_address[1])
               THEN Emit(fr, "WARNING: the email address {} was when instantiating the class", NoExc)
               ELSE fr
    IN  IF arg = None /\ fr.self.email_address = <<>>
        THEN Raise(fr, AddressNotSetError(
                 "The address to validate must be set either when the class is instantiated or when this method is called.",
                 <<>>))
        ELSE [fr1 EXCEPT !.self.email_address = <<Lower(Str(arg))>>]

\* validate(email_address); a raised exception ends the method at once
validate(fr0, arg, seed) ==
    LET fr  == Enter(fr0, "validate")
        fr1 == IF fr.self.email_address_set_at_init
                  /\ NotEqual(arg, fr.self.email_address[1])
               THEN Emit(fr, "WARNING: the email address {} was when instantiating the class", NoExc)
               ELSE fr
        after_first(fr3) == IF fr3.exc # NoExc THEN fr3 ELSE validate_domain(fr3, seed)
        after_base(fr2) == IF fr2.exc # NoExc THEN fr2 ELSE after_first(validate_local_part(fr2, seed))
    IN  IF arg = None /\ fr.self.email_address = <<>>
        THEN Raise(fr, AddressNotSetError(
                 "The address to validate must be set either when the class is instantiated or when this method is called.",
                 <<>>))
        ELSE after_base(validate_base([fr1 EXCEPT !.self.email_address = <<Lower(Str(arg))>>], FALSE))

\* _handle_error(error, show_traceback): prints and returns False.  The
\* traceback lines are printed one by one; the model prints them as one item.
handle_error(fr, error, show_traceback) ==
    Emit(IF show_traceback THEN Emit(fr, "traceback", error) ELSE fr,
          "{type(error).__name__}: {error}", error)

\* the value a public method gives back to its caller
Returned(fr, value) ==
    [self |-> fr.self, exc |-> NoExc, out |-> fr.out, calls |-> fr.calls, ret |-> value]
Propagated(fr) ==
    [self |-> fr.self, exc |-> fr.exc, out |-> fr.out, calls |-> fr.calls, ret |-> "raised"]

\* fast_validation(email_address), a class method: it works on an instance
\* of its own
fast_validation(arg) ==
    LET outcome(fr) ==
            IF fr.exc = NoExc THEN Returned(fr, "True")
            ELSE IF fr.exc.type = "NotValidEmailAddressSyntaxError" THEN Returned(fr, "False")
            ELSE Returned(handle_error(
                     Emit(fr, "Found the following unexpected error when validating the address {}", NoExc),
                     fr.exc, TRUE), "False")
    IN  outcome(validate_base(Enter(Frame(EmailValidator(arg)), "fast_validation"), TRUE))

\* is_email_valid without the catch-all `except Exception`
is_email_valid_no_catch_all(fr0, arg, show_traceback, seed) ==
    LET outcome(fr) ==
            IF fr.exc = NoExc THEN Returned(fr, "True")
            ELSE IF fr.exc.type \in {"NotValidEmailAddressSyntaxError", "LocalPartSyntaxError",
                                     "DomainSyntaxError"}
            THEN Returned(handle_error(fr, fr.exc, show_traceback), "False")
            ELSE Propagated(fr)
    IN  outcome(validate(Enter(fr0, "is_email_valid"), arg, seed))

\* is_email_valid(email_address, show_traceback)
is_email_valid(fr0, arg, show_traceback, seed) ==
    LET outcome(fr) ==
            IF fr.exc = NoExc THEN Returned(fr, "True")
            ELSE IF fr.exc.type \in {"NotValidEmailAddressSyntaxError", "LocalPartSyntaxError",
                                     "DomainSyntaxError"}
            THEN Returned(handle_error(fr, fr.exc, show_traceback), "False")
            ELSE Returned(handle_error(
                     Emit(fr, "Found the following unexpected error when validating the address {}", NoExc),
                     fr.exc, TRUE), "False")
    IN  outcome(validate(Enter(fr0, "is_email_valid"), arg, seed))

\* ------------------------------------------------------------------------
\* The arguments the callers pass
\* ------------------------------------------------------------------------
\* a, A, `.`, `@`, `"`, `(`, `)` and a space
Alphabet == {97, 65, 46, 64, 34, 40, 41, 32}

MaxLen == 3

\* every string over Alphabet of at most MaxLen characters
ShortStrings == UNION {[1..n -> Alphabet] : n \in 0..MaxLen}

\* the addresses the notebook's test cells expect to be valid
valid_addresses == {
    \* simple@example.com
    <<115, 105, 109, 112, 108, 101, 64, 101, 120, 97, 109, 112, 108, 101, 46, 99, 111, 109>>,
    \* very.common@example.com
    <<118, 101, 114, 121, 46, 99, 111, 109, 109, 111, 110, 64, 101, 120, 97, 109, 112, 108, 101, 46, 99, 111, 109>>,
    \* disposable.style.email.with+symbol@example.com
    <<100, 105, 115, 112, 111, 115, 97, 98, 108, 101, 46, 115, 116, 121, 108, 101, 46, 101, 109, 97, 105, 108, 46, 119, 105, 116, 104, 43, 115, 121, 109, 98, 111, 108, 64, 101, 120, 97, 109, 112, 108, 101, 46, 99, 111, 109>>,
    \* other.email-with-hyphen@example.com
    <<111, 116, 104, 101, 114, 46, 101, 109, 97, 105, 108, 45, 119, 105, 116, 104, 45, 104, 121, 112, 104, 101, 110, 64, 101, 120, 97, 109, 112, 108, 101, 46, 99, 111, 109>>,
    \* fully-qualified-domain@example.com
    <<102, 117, 108, 108, 121, 45, 113, 117, 97, 108, 105, 102, 105, 101, 100, 45, 100, 111, 109, 97, 105, 110, 64, 101, 120, 97, 109, 112, 108, 101, 46, 99, 111, 109>>,
    \* user.name+tag+sorting@example.com
    <<117, 115, 101, 114, 46, 110, 97, 109, 101, 43, 116, 97, 103, 43, 115, 111, 114, 116, 105, 110, 103, 64, 101, 120, 97, 109, 112, 108, 101, 46, 99, 111, 109>>,
    \* x@example.com
    <<120, 64, 101, 120, 97, 109, 112, 108, 101, 46, 99, 111, 109>>,
    \* example-indeed@strange-example.com
    <<101, 120, 97, 109, 112, 108, 101, 45, 105, 110, 100, 101, 101, 100, 64, 115, 116, 114, 97, 110, 103, 101, 45, 101, 120, 97, 109, 112, 108, 101, 46, 99, 111, 109>>,
    \* admin@mailserver1
    <<97, 100, 109, 105, 110, 64, 109, 97, 105, 108, 115, 101, 114, 118, 101, 114, 49>>,
    \* example@s.example
    <<101, 120, 97, 109, 112, 108, 101, 64, 115, 46, 101, 120, 97, 109, 112, 108, 101>>,
    \* " "@example.org
    <<34, 32, 34, 64, 101, 120, 97, 109, 112, 108, 101, 46, 111, 114, 103>>,
    \* "john..doe"@example.org
    <<34, 106, 111, 104, 110, 46, 46, 100, 111, 101, 34, 64, 101, 120, 97, 109, 112, 108, 101, 46, 111, 114, 103>>,
    \* mailhost!username@example.org
    <<109, 97, 105, 108, 104, 111, 115, 116, 33, 117, 115, 101, 114, 110, 97, 109, 101, 64, 101, 120, 97, 109, 112, 108, 101, 46, 111, 114, 103>>,
    \* user%example.com@example.org
    <<117, 115, 101, 114, 37, 101, 120, 97, 109, 112, 108, 101, 46, 99, 111, 109, 64, 101, 120, 97, 109, 112, 108, 101, 46, 111, 114, 103>>,
    \* user-@example.org
    <<117, 115, 101, 114, 45, 64, 101, 120, 97, 109, 112, 108, 101, 46, 111, 114, 103>>,
    \* "A@b@c"@example.com
    <<34, 65, 64, 98, 64, 99, 34, 64, 101, 120, 97, 109, 112, 108, 101, 46, 99, 111, 109>>,
    \* jsmith@[192.168.2.1]
    <<106, 115, 109, 105, 116, 104, 64, 91, 49, 57, 50, 46, 49, 54, 56, 46, 50, 46, 49, 93>>,
    \* jsmith@[IPv6:2001:db8::1]
    <<106, 115, 109, 105, 116, 104, 64, 91, 73, 80, 118, 54, 58, 50, 48, 48, 49, 58, 100, 98, 56, 58, 58, 49, 93>>
}

\* the addresses the notebook's test cells expect to be invalid
invalid_addresses == {
    \* Abc.example.com
    <<65, 98, 99, 46, 101, 120, 97, 109, 112, 108, 101, 46, 99, 111, 109>>,
    \* A@b@c@example.com
    <<65, 64, 98, 64, 99, 64, 101, 120, 97, 109, 112, 108, 101, 46, 99, 111, 109>>,
    \* a"b(c)d,e:f;g<h>i[j(backslash)k]l@example.com
    <<97, 34, 98, 40, 99, 41, 100, 44, 101, 58, 102, 59, 103, 60, 104, 62, 105, 91, 106, 92, 107, 93, 108, 64, 101, 120, 97, 109, 112, 108, 101, 46, 99, 111, 109>>,
    \* just"not"right@example.com
    <<106, 117, 115, 116, 34, 110, 111, 116, 34, 114, 105, 103, 104, 116, 64, 101, 120, 97, 109, 112, 108, 101, 46, 99, 111, 109>>,
    \* "quote"separated"@address.com
    <<34, 113, 117, 111, 116, 101, 34, 115, 101, 112, 97, 114, 97, 116, 101, 100, 34, 64, 97, 100, 100, 114, 101, 115, 115, 46, 99, 111, 109>>,
    \* this is"not(backslash)allowed@example.com
    <<116, 104, 105, 115, 32, 105, 115, 34, 110, 111, 116, 92, 97, 108, 108, 111, 119, 101, 100, 64, 101, 120, 97, 109, 112, 108, 101, 46, 99, 111, 109>>,
    \* this(backslash) still"not(backslash)allowed@example.com
    <<116, 104, 105, 115, 92, 32, 115, 116, 105, 108, 108, 34, 110, 111, 116, 92, 97, 108, 108, 111, 119, 101, 100, 64, 101, 120, 97, 109, 112, 108, 101, 46, 99, 111, 109>>,
    \* 1234567890123456789012345678901234567890123456789012345678901234+x@example.com
    <<49, 50, 51, 52, 53, 54, 55, 56, 57, 48, 49, 50, 51, 52, 53, 54, 55, 56, 57, 48, 49, 50, 51, 52, 53, 54, 55, 56, 57, 48, 49, 50, 51, 52, 53, 54, 55, 56, 57, 48, 49, 50, 51, 52, 53, 54, 55, 56, 57, 48, 49, 50, 51, 52, 53, 54, 55, 56, 57, 48, 49, 50, 51, 52, 43, 120, 64, 101, 120, 97, 109, 112, 108, 101, 46, 99, 111, 109>>
}

\* Local-parts and domains that are put together with an `@` in all
\* combinations: legal and illegal dot-atoms, quoted strings, comments,
\* white space, domain literals and empty parts
LocalParts == {
    \* (empty)
    <<>>,
    \* a
    <<97>>,
    \* A
    <<65>>,
    \* a.a
    <<97, 46, 97>>,
    \* .a
    <<46, 97>>,
    \* a.
    <<97, 46>>,
    \* a..a
    <<97, 46, 46, 97>>,
    \* a-
    <<97, 45>>,
    \* a@a
    <<97, 64, 97>>,
    \* a a
    <<97, 32, 97>>,
    \*  a
    <<32, 97>>,
    \* a 
    <<97, 32>>,
    \* a(
    <<97, 40>>,
    \* (a)a
    <<40, 97, 41, 97>>,
    \* a(a)
    <<97, 40, 97, 41>>,
    \* a()
    <<97, 40, 41>>,
    \* a,
    <<97, 44>>,
    \* a,(a)
    <<97, 44, 40, 97, 41>>,
    \* a,;
    <<97, 44, 59>>,
    \* "a"
    <<34, 97, 34>>,
    \* " "
    <<34, 32, 34>>,
    \* "a.."
    <<34, 97, 46, 46, 34>>,
    \* "a@a"
    <<34, 97, 64, 97, 34>>,
    \* "a"a"
    <<34, 97, 34, 97, 34>>,
    \* "
    <<34>>,
    \* ""
    <<34, 34>>,
    \* "a(backslash)"
    <<34, 97, 92, 34>>,
    \* "(backslash)a"
    <<34, 92, 97, 34>>,
    \* "a(backslash)
    <<34, 97, 92>>,
    \* a"
    <<97, 34>>,
    \* "a
    <<34, 97>>,
    \*  "a"
    <<32, 34, 97, 34>>,
    \* @
    <<64>>,
    \* a@
    <<97, 64>>,
    \* .a@a
    <<46, 97, 64, 97>>,
    \* a.@a
    <<97, 46, 64, 97>>,
    \* a(@)
    <<97, 40, 64, 41>>,
    \* (@)a
    <<40, 64, 41, 97>>,
    \* a(@)@a
    <<97, 40, 64, 41, 64, 97>>,
    \* a@a(
    <<97, 64, 97, 40>>,
    \* "@
    <<34, 64>>,
    \* A(
    <<65, 40>>,
    \* A,a
    <<65, 44, 97>>,
    \* (")a
    <<40, 34, 41, 97>>,
    \* a(")
    <<97, 40, 34, 41>>,
    \* "a\\"
    <<34, 97, 92, 92, 34>>,
    \* "a"a""
    <<34, 97, 34, 97, 34, 34>>
}

\* (see LocalParts)
Domains == {
    \* (empty)
    <<>>,
    \* a
    <<97>>,
    \* a.a
    <<97, 46, 97>>,
    \* a..a
    <<97, 46, 46, 97>>,
    \* .a
    <<46, 97>>,
    \* a.
    <<97, 46>>,
    \* -a
    <<45, 97>>,
    \* a-
    <<97, 45>>,
    \* a-a
    <<97, 45, 97>>,
    \* a.-a
    <<97, 46, 45, 97>>,
    \* a,
    <<97, 44>>,
    \* a,;
    <<97, 44, 59>>,
    \* a a
    <<97, 32, 97>>,
    \*  a
    <<32, 97>>,
    \* (a)a
    <<40, 97, 41, 97>>,
    \* a(a).a
    <<97, 40, 97, 41, 46, 97>>,
    \* [a]
    <<91, 97, 93>>,
    \* [a.a]
    <<91, 97, 46, 97, 93>>,
    \* [(]
    <<91, 40, 93>>,
    \* [a a]
    <<91, 97, 32, 97, 93>>,
    \* [[]
    <<91, 91, 93>>,
    \* [a(backslash)]
    <<91, 97, 92, 93>>,
    \*  [a]
    <<32, 91, 97, 93>>,
    \* []
    <<91, 93>>,
    \* [a
    <<91, 97>>,
    \* a]
    <<97, 93>>,
    \* [a]a
    <<91, 97, 93, 97>>
}

Composed == {l \o <<AT>> \o d : l \in LocalParts, d \in Domains}

\* n times the character c
Fill(c, n) == [i \in 1..n |-> c]

\* a legal domain name of n characters: labels of 63 letters (the last one
\* of at most 64)
LabelsText(n) == [i \in 1..n |-> IF i % 64 = 0 /\ i < n THEN DOT ELSE 97]

\* lengths around the limit of the local-part
LocalLens == (LOCAL_PART_MAX_LENGTH - 1)..(LOCAL_PART_MAX_LENGTH + 2)

\* lengths around the limits of the domain and of the whole address
DomainLens == (DOMAIN_MAX_LENGTH - 4)..(DOMAIN_MAX_LENGTH + 2)

\* lengths around the limit of a DNS label
LabelLens == (DNS_LABEL_MAX_LENGHT - 1)..(DNS_LABEL_MAX_LENGHT + 2)

\* addresses whose parts are as long as the limits, or nearly so
Boundary ==
    \* a local-part of n equal characters, legal (letters) or not
    {Fill(c, n) \o <<AT, 97>> : c \in {97, LPAREN, DQUOTE, DOT, 32, AT}, n \in LocalLens}
    \* a legal local-part of n characters with dots: a.a.a ...
    \cup {[i \in 1..n |-> IF i % 2 = 0 /\ i < n THEN DOT ELSE 97] \o <<AT, 97>> : n \in LocalLens}
    \* a quoted local-part of n characters
    \cup {<<DQUOTE>> \o Fill(97, n - 2) \o <<DQUOTE, AT, 97>> : n \in LocalLens}
    \* a legal domain of n characters after an empty or a one-letter local-part
    \cup {l \o <<AT>> \o LabelsText(n) : l \in {<<>>, <<97>>}, n \in DomainLens}
    \* a label of n letters, alone, first, last or in the middle of the domain
    \cup {<<97, AT>> \o Fill(97, n) : n \in LabelLens}
    \cup {<<97, AT>> \o Fill(97, n) \o <<DOT, 97>> : n \in LabelLens}
    \cup {<<97, AT, 97, DOT>> \o Fill(97, n) : n \in LabelLens}
    \cup {<<97, AT, 97, DOT>> \o Fill(97, n) \o <<DOT, 97>> : n \in LabelLens}
    \* a domain literal that holds an `@`: the text before the last `@` has n characters
    \cup {Fill(97, n - 3) \o <<AT, LBRACKET, 97, AT, 97, RBRACKET>> : n \in LocalLens}

\* None, the number 5 and the boolean True
NonStrings == {None, ObjVal(<<53>>), ObjVal(<<84, 114, 117, 101>>)}

Inputs ==
    {StrVal(s) : s \in ShortStrings \cup valid_addresses \cup invalid_addresses
                       \cup Composed \cup Boundary}
    \cup NonStrings

\* ------------------------------------------------------------------------
\* State
\* ------------------------------------------------------------------------
VARIABLES
    \* the fields of the EmailValidator instance
    email_address_set_at_init, email_address, local_part, domain, dns_labels,
    email_address_max_length, local_part_max_length, domain_max_length,
    dns_label_max_length,
    \* the hash seed of the process
    hashseed,
    \* the last call made: the method, its arguments, what it returned or
    \* raised, what it printed and the methods it entered
    op, arg, show_traceback, ret, exc, stdout, calls,
    \* the threads that share the instance: for each one the address it
    \* validates, the statement of validate it is at and what it raised
    threads

fields == <<email_address_set_at_init, email_address, local_part, domain, dns_labels,
            email_address_max_length, local_part_max_length, domain_max_length,
            dns_label_max_length>>

vars == <<email_address_set_at_init, email_address, local_part, domain, dns_labels,
          email_address_max_length, local_part_max_length, domain_max_length,
          dns_label_max_length, hashseed, op, arg, show_traceback, ret, exc, stdout, calls,
          threads>>

\* the instance as the methods see it
Self ==
    [email_address_set_at_init |-> email_address_set_at_init,
     email_address |-> email_address,
     local_part |-> local_part,
     domain |-> domain,
     dns_labels |-> dns_labels,
     email_address_max_length |-> email_address_max_length,
     local_part_max_length |-> local_part_max_length,
     domain_max_length |-> domain_max_length,
     dns_label_max_length |-> dns_label_max_length]

\* the instance is left as the call left it
Store(self) ==
    /\ email_address_set_at_init' = self.email_address_set_at_init
    /\ email_address' = self.email_address
    /\ local_part' = self.local_part
    /\ domain' = self.domain
    /\ dns_labels' = self.dns_labels
    /\ email_address_max_length' = self.email_address_max_length
    /\ local_part_max_length' = self.local_part_max_length
    /\ domain_max_length' = self.domain_max_length
    /\ dns_label_max_length' = self.dns_label_max_length

\* the outcome of the call is what the caller sees
Outcome(name, x, tb, r) ==
    /\ op' = name
    /\ arg' = x
    /\ show_traceback' = tb
    /\ ret' = r.ret
    /\ exc' = r.exc
    /\ stdout' = r.out
    /\ calls' = r.calls

\* validator = EmailValidator(), in a process with some hash seed
Init ==
    /\ LET self == EmailValidator(None)
       IN  /\ email_address_set_at_init = self.email_address_set_at_init
           /\ email_address = self.email_address
           /\ local_part = self.local_part
           /\ domain = self.domain
           /\ dns_labels = self.dns_labels
           /\ email_address_max_length = self.email_address_max_length
           /\ local_part_max_length = self.local_part_max_length
           /\ domain_max_length = self.domain_max_length
           /\ dns_label_max_length = self.dns_label_max_length
    /\ hashseed \in {0, 1}
    /\ op = "none"
    /\ arg = None
    /\ show_traceback = FALSE
    /\ ret = "None"
    /\ exc = NoExc
    /\ stdout = <<>>
    /\ calls = <<>>
    /\ threads = <<>>

\* validator.validate(x)
Validate ==
    /\ op = "none"
    /\ \E x \in Inputs :
       \E fr \in {validate(Frame(Self), x, hashseed)} :
       \E r \in {IF fr.exc = NoExc THEN Returned(fr, "None") ELSE Propagated(fr)} :
           Store(r.self) /\ Outcome("validate", x, FALSE, r)
    /\ UNCHANGED <<hashseed, threads>>

\* validator.is_email_valid(x, show_traceback = tb)
IsEmailValid ==
    /\ op = "none"
    /\ \E x \in Inputs, tb \in BOOLEAN :
       \E r \in {is_email_valid(Frame(Self), x, tb, hashseed)} :
           Store(r.self) /\ Outcome("is_email_valid", x, tb, r)
    /\ UNCHANGED <<hashseed, threads>>

\* EmailValidator.fast_validation(x)
FastValidation ==
    /\ op = "none"
    /\ \E x \in Inputs :
       \E r \in {fast_validation(x)} : Outcome("fast_validation", x, FALSE, r)
    /\ UNCHANGED <<fields, hashseed, threads>>

Next ==
    \/ Validate
    \/ IsEmailValid
    \/ FastValidation

\* one call on a new instance
Spec == Init /\ [][Next]_vars

\* ------------------------------------------------------------------------
\* One instance used for call after call
\* ------------------------------------------------------------------------
\* the arguments given to the constructor: none, or an address
InitArgs == {None, StrVal(<<97, AT, 97>>), StrVal(<<65, AT, 97, DOT, 97>>)}

\* the arguments of the calls: None, a number (no `@` in its text), addresses
\* that pass, one that the domain check rejects, two that the local-part
\* check rejects for the characters `,` and `(` (after a letter, and alone),
\* and an address of 255 characters
ReuseInputs ==
    {None, ObjVal(<<53>>)}
    \cup {StrVal(s) : s \in {<<97, AT, 97>>,
                             <<65, AT, 97, DOT, 97>>,
                             <<DQUOTE, 97, DQUOTE, AT, LBRACKET, 97, RBRACKET>>,
                             <<97, AT, HYPHEN, 97>>,
                             <<65, 44, LPAREN, AT, 97>>,
                             <<44, LPAREN, AT, 97>>,
                             <<97, AT>> \o LabelsText(EMAIL_ADDRESS_MAX_LENGTH - 1)}}

\* validator = EmailValidator(a), in a process with some hash seed
InitReuse ==
    /\ \E a \in InitArgs :
           LET self == EmailValidator(a)
           IN  /\ email_address_set_at_init = self.email_address_set_at_init
               /\ email_address = self.email_address
               /\ local_part = self.local_part
               /\ domain = self.domain
               /\ dns_labels = self.dns_labels
               /\ email_address_max_length = self.email_address_max_length
               /\ local_part_max_length = self.local_part_max_length
               /\ domain_max_length = self.domain_max_length
               /\ dns_label_max_length = self.dns_label_max_length
    /\ hashseed \in {0, 1}
    /\ op = "none"
    /\ arg = None
    /\ show_traceback = FALSE
    /\ ret = "None"
    /\ exc = NoExc
    /\ stdout = <<>>
    /\ calls = <<>>
    /\ threads = <<>>

\* validator.validate(x), whatever the calls made before on the instance
ValidateAgain ==
    /\ \E x \in ReuseInputs :
       \E fr \in {validate(Frame(Self), x, hashseed)} :
       \E r \in {IF fr.exc = NoExc THEN Returned(fr, "None") ELSE Propagated(fr)} :
           Store(r.self) /\ Outcome("validate", x, FALSE, r)
    /\ UNCHANGED <<hashseed, threads>>

\* validator.is_email_valid(x, show_traceback = tb), whatever the calls made
\* before on the instance
IsEmailValidAgain ==
    /\ \E x \in ReuseInputs, tb \in BOOLEAN :
       \E r \in {is_email_valid(Frame(Self), x, tb, hashseed)} :
           Store(r.self) /\ Outcome("is_email_valid", x, tb, r)
    /\ UNCHANGED <<hashseed, threads>>

\* EmailValidator.fast_validation(x), between the calls on the instance
FastValidationAgain ==
    /\ \E x \in ReuseInputs :
       \E r \in {fast_validation(x)} : Outcome("fast_validation", x, FALSE, r)
    /\ UNCHANGED <<fields, hashseed, threads>>

NextReuse ==
    \/ ValidateAgain
    \/ IsEmailValidAgain
    \/ FastValidationAgain

\* any sequence of calls on one instance
SpecReuse == InitReuse /\ [][NextReuse]_vars

\* ------------------------------------------------------------------------
\* Two threads that call validate on one instance
\* ------------------------------------------------------------------------
\* The threads run under the interpreter lock, which can pass from one thread
\* to the other between any two statements.  A step of the model is one
\* statement of validate: the lines up to the assignment of
\* self.email_address, then each of the three checks.  The switches inside a
\* check are left out, so every behaviour of the model is one the threads
\* can have.
Threads == {1, 2}

\* the addresses the threads validate: one that passes, and one that each
\* stage rejects
ThreadInputs ==
    {StrVal(s) : s \in {<<97, AT, 97>>,
                       <<65, DOT, 97, AT, 97, DOT, 97>>,
                       <<97>>,
                       <<DOT, 97, AT, 97>>,
                       <<97, AT, HYPHEN, 97>>,
                       <<DQUOTE, 97, DQUOTE, AT, LBRACKET, 97, RBRACKET>>}}

\* validator = EmailValidator(), and each thread is about to call
\* validator.validate(x) with an address of its own
InitThreads ==
    /\ LET self == EmailValidator(None)
       IN  /\ email_address_set_at_init = self.email_address_set_at_init
           /\ email_address = self.email_address
           /\ local_part = self.local_part
           /\ domain = self.domain
           /\ dns_labels = self.dns_labels
           /\ email_address_max_length = self.email_address_max_length
           /\ local_part_max_length = self.local_part_max_length
           /\ domain_max_length = self.domain_max_length
           /\ dns_label_max_length = self.dns_label_max_length
    /\ hashseed \in {0, 1}
    /\ op = "none"
    /\ arg = None
    /\ show_traceback = FALSE
    /\ ret = "None"
    /\ exc = NoExc
    /\ stdout = <<>>
    /\ calls = <<>>
    /\ \E x \in ThreadInputs, y \in ThreadInputs :
           /\ x # y
           /\ threads = [t \in Threads |->
                            [arg |-> IF t = 1 THEN x ELSE y, pc |-> "validate", exc |-> NoExc]]

\* the thread goes on after a statement that left the frame fr: to the
\* statement `then` when nothing was raised, out of validate otherwise
Proceed(t, fr, then) ==
    /\ Store(fr.self)
    /\ threads' = [threads EXCEPT ![t].pc = IF fr.exc = NoExc THEN then ELSE "done",
                                  ![t].exc = fr.exc]
    /\ UNCHANGED <<hashseed, op, arg, show_traceback, ret, exc, stdout, calls>>

\* thread t enters validate and assigns self.email_address
ThreadStore(t) ==
    /\ threads[t].pc = "validate"
    /\ Proceed(t, validate_store(Frame(Self), threads[t].arg), "_validate_base")

\* thread t runs self._validate_base()
ThreadBase(t) ==
    /\ threads[t].pc = "_validate_base"
    /\ Proceed(t, validate_base(Frame(Self), FALSE), "_validate_local_part")

\* thread t runs self._validate_local_part()
ThreadLocalPart(t) ==
    /\ threads[t].pc = "_validate_local_part"
    /\ Proceed(t, validate_local_part(Frame(Self), hashseed), "_validate_domain")

\* thread t runs self._validate_domain()
ThreadDomain(t) ==
    /\ threads[t].pc = "_validate_domain"
    /\ Proceed(t, validate_domain(Frame(Self), hashseed), "done")

NextThreads ==
    \/ \E t \in Threads : ThreadStore(t)
    \/ \E t \in Threads : ThreadBase(t)
    \/ \E t \in Threads : ThreadLocalPart(t)
    \/ \E t \in Threads : ThreadDomain(t)

\* two validate calls on one instance, interleaved in every way
SpecThreads == InitThreads /\ [][NextThreads]_vars

\* ------------------------------------------------------------------------
\* What the properties speak about
\* ------------------------------------------------------------------------
\* the last call entered the method
Entered(name) == \E i \in 1..Len(calls) : calls[i] = name

\* the stages of validate that the last call entered, in order
StagesRun ==
    SelectSeq(calls, LAMBDA n : n \in {"_validate_base", "_validate_local_part",
                                       "_validate_domain"})

\* the lowercased string form of the argument of the last call
Address == Lower(Str(arg))

\* the text before and after the last `@` of Address
LocalText == SubSeq(Address, 1, LastIndex(Address, AT) - 1)
DomainText == SubSeq(Address, LastIndex(Address, AT) + 1, Len(Address))

\* the exception each stage raises when it is run on its own (NoExc when it passes)
BaseError(addr) ==
    validate_base(Frame([EmailValidator(None) EXCEPT !.email_address = <<addr>>]), FALSE).exc
LocalPartError(lp, seed) ==
    validate_local_part(Frame([EmailValidator(None) EXCEPT !.local_part = <<lp>>]), seed).exc
DomainError(d, seed) ==
    validate_domain(Frame([EmailValidator(None) EXCEPT !.domain = <<d>>]), seed).exc

\* a dot-atom written without comments or white space: letters and digits
\* and the other atom characters, in runs separated by single dots
PlainDotAtom(t) ==
    /\ Len(t) > 0
    /\ \A i \in 1..Len(t) : ATEXT(t[i]) \/ t[i] = DOT
    /\ t[1] # DOT /\ t[Len(t)] # DOT
    /\ \A i \in 1..(Len(t) - 1) : ~(t[i] = DOT /\ t[i + 1] = DOT)

\* a host name: non-empty labels of at most 64 letters, digits and inner hyphens
PlainHostName(t) ==
    /\ PlainDotAtom(t)
    /\ \A l \in {Split(t, DOT)[i] : i \in 1..Len(Split(t, DOT))} :
          /\ Len(l) <= DNS_LABEL_MAX_LENGHT
          /\ l[1] # HYPHEN /\ l[Len(l)] # HYPHEN
          /\ \A i \in 1..Len(l) : l[i] \in (97..122) \cup (48..57) \cup {HYPHEN}

TooLongAddress ==
    NotValidEmailAddressSyntaxError("The address can not be longet than {} characters",
                                    << <<EMAIL_ADDRESS_MAX_LENGTH>> >>)
NoAtSign ==
    NotValidEmailAddressSyntaxError("Expecting address syntax like localpart@domainname", <<>>)
TooLongLocalPart ==
    LocalPartSyntaxError("The local part cannot be longer than {} characters",
                         << <<LOCAL_PART_MAX_LENGTH>> >>)

\* ------------------------------------------------------------------------
\* Properties
\* ------------------------------------------------------------------------
\* C1: validate runs the base-format check, then the local-part check, then
\* the domain check, and stops at the first stage that fails: the exception
\* it raises is the one of the earliest failing stage, and it returns
\* without an exception only when the three stages pass.  (Without an
\* address no stage is run at all.)
C1_StageOrder ==
    op = "validate" =>
        IF arg = None
        THEN ret = "raised" /\ StagesRun = <<>>
        ELSE LET b == BaseError(Address)
                 l == LocalPartError(LocalText, hashseed)
                 d == DomainError(DomainText, hashseed)
             IN  /\ exc = IF b # NoExc THEN b ELSE IF l # NoExc THEN l ELSE d
                 /\ StagesRun = IF b # NoExc THEN <<"_validate_base">>
                                ELSE IF l # NoExc
                                THEN <<"_validate_base", "_validate_local_part">>
                                ELSE <<"_validate_base", "_validate_local_part",
                                       "_validate_domain">>
                 /\ (ret = "None") = (b = NoExc /\ l = NoExc /\ d = NoExc)
                 /\ (ret = "raised") = (exc # NoExc)

\* the local-part and the domain are both invalid, and the local-part is reported
C1_Witness ==
    /\ op = "validate"
    /\ exc.type = "LocalPartSyntaxError"
    /\ domain # <<>>
    /\ DomainError(domain[1], hashseed).type = "DomainSyntaxError"

C3_NoAtSign ==
    (/\ op = "validate"
     /\ arg # None
     /\ Count(Address, AT) = 0
     /\ Len(Address) <= EMAIL_ADDRESS_MAX_LENGTH)
    => /\ ret = "raised"
       /\ exc = NoAtSign
       /\ StagesRun = <<"_validate_base">>
       /\ ~Entered("_validate_local_part_quoted")
       /\ ~Entered("_validate_local_part_unquoted")
       /\ ~Entered("_validate_domain_literal")
       /\ ~Entered("_validate_LDH_domain")
       /\ local_part = <<>> /\ domain = <<>>

\* a string without `@` that would pass as a domain was rejected
C3_Witness ==
    /\ op = "validate"
    /\ arg.tag = "str"
    /\ Count(Address, AT) = 0
    /\ PlainHostName(Address)
    /\ exc = NoAtSign

\* C4: fast_validation returns False on any failure, raises nothing and
\* prints nothing, whatever it is given (a missing address included).
C4_FastSilent ==
    op = "fast_validation" =>
        /\ ret \in {"True", "False"}
        /\ exc = NoExc
        /\ stdout = <<>>
        /\ (arg = None => ret = "False")

C6_LowerIdempotent ==
    (op = "validate" /\ arg.tag = "str") =>
        LET v == validate(Frame(EmailValidator(None)), StrVal(Lower(arg.val)), hashseed)
        IN  /\ exc = v.exc
            /\ (ret = "None") = (v.exc = NoExc)
            /\ email_address = v.self.email_address
            /\ local_part = v.self.local_part
            /\ domain = v.self.domain

\* an address with a capital letter was rejected with a message that quotes it
C6_Witness ==
    /\ op = "validate"
    /\ arg.tag = "str"
    /\ Lower(arg.val) # arg.val
    /\ exc.type = "LocalPartSyntaxError"
    /\ Len(exc.args) = 2
    /\ exc.args[1] = Lower(LocalText)

C8_FastExact ==
    (op = "fast_validation" /\ arg.tag = "str") =>
        /\ ret \in {"True", "False"}
        /\ (ret = "True") =
              (/\ Len(Address) <= EMAIL_ADDRESS_MAX_LENGTH
               /\ VALID_ADDRESS_PATTERN(Address)
               /\ Len(LocalText) <= LOCAL_PART_MAX_LENGTH
               /\ Len(DomainText) <= DOMAIN_MAX_LENGTH)

\* the pattern matches with a local-part of at most 64 characters, but the
\* text before the last `@` (which stands in a domain literal) is longer
C8_Witness ==
    /\ op = "fast_validation"
    /\ arg.tag = "str"
    /\ VALID_ADDRESS_PATTERN(Address)
    /\ Len(Partition_first(Address, AT)[1]) <= LOCAL_PART_MAX_LENGTH
    /\ Len(LocalText) > LOCAL_PART_MAX_LENGTH
    /\ ret = "False"

\* C9: a legal local-part of exactly 64 characters is accepted, and a
\* local-part of 65 characters or more is rejected with LocalPartSyntaxError
\* "The local part cannot be longer than 64 characters" before the quoted or
\* unquoted check is chosen, whatever its characters are.
C9_LocalPartLength ==
    (/\ op = "validate"
     /\ arg # None
     /\ Count(Address, AT) > 0
     /\ Len(Address) <= EMAIL_ADDRESS_MAX_LENGTH)
    => /\ Len(LocalText) > LOCAL_PART_MAX_LENGTH =>
            /\ exc = TooLongLocalPart
            /\ ~Entered("_validate_local_part_quoted")
            /\ ~Entered("_validate_local_part_unquoted")
       /\ (Len(LocalText) = LOCAL_PART_MAX_LENGTH /\ PlainDotAtom(LocalText)) =>
            /\ exc.type # "LocalPartSyntaxError"
            /\ PlainHostName(DomainText) => ret = "None"
       /\ Len(LocalText) <= LOCAL_PART_MAX_LENGTH => exc # TooLongLocalPart

\* a local-part of 65 characters that are not legal was rejected for its length
C9_Witness ==
    /\ op = "validate"
    /\ Len(LocalText) = LOCAL_PART_MAX_LENGTH + 1
    /\ \E i \in 1..Len(LocalText) : ~ATEXT(LocalText[i])
    /\ exc = TooLongLocalPart

\* C10 as stated: an address whose domain is a legal name of exactly 255
\* characters is valid, and one whose domain has 256 characters is rejected
\* with DomainSyntaxError.
C10_Original ==
    (/\ op = "validate"
     /\ arg.tag = "str"
     /\ Count(Address, AT) > 0
     /\ PlainDotAtom(LocalText)
     /\ PlainHostName(DomainText))
    => /\ Len(DomainText) = DOMAIN_MAX_LENGTH => ret = "None"
       /\ Len(DomainText) = DOMAIN_MAX_LENGTH + 1 => exc.type = "DomainSyntaxError"

\* C10, amended: the whole address is limited to 254 characters first, so an
\* address whose domain has 255 characters, like one whose domain has 256, is
\* rejected with NotValidEmailAddressSyntaxError ("The address can not be
\* longet than 254 characters") before the domain check is entered; validate
\* never raises the domain-length DomainSyntaxError; a legal address of 254
\* characters in all (a domain of 252 after one letter) is valid.
C10_DomainLength ==
    (op = "validate" /\ arg.tag = "str" /\ Count(Address, AT) > 0) =>
        /\ Len(DomainText) >= DOMAIN_MAX_LENGTH =>
              /\ exc = TooLongAddress
              /\ StagesRun = <<"_validate_base">>
        /\ exc.msg # "Invalid syntax for domain name {}. It cannot be longer than {} characters"
        /\ (/\ Len(Address) = EMAIL_ADDRESS_MAX_LENGTH
            /\ PlainDotAtom(LocalText)
            /\ PlainHostName(DomainText)) => ret = "None"

\* a legal domain name of exactly 255 characters was rejected as part of an
\* address that is too long
C10_Witness ==
    /\ op = "validate"
    /\ arg.tag = "str"
    /\ PlainHostName(DomainText)
    /\ Len(DomainText) = DOMAIN_MAX_LENGTH
    /\ exc = TooLongAddress

\* C11: in a domain that is not a literal, a DNS label of exactly 64
\* characters is accepted and a label of 65 characters or more is rejected
\* with DomainSyntaxError, wherever the label stands: when it is the first
\* label at fault the error is "DNS labels cannot be longer than 64
\* characters", and that error is raised for no other reason.
C11_LabelLength ==
    (/\ op = "validate"
     /\ arg.tag = "str"
     /\ Count(Address, AT) > 0
     /\ Len(Address) <= EMAIL_ADDRESS_MAX_LENGTH
     /\ PlainDotAtom(LocalText)
     /\ Len(LocalText) <= LOCAL_PART_MAX_LENGTH
     /\ ~(StartsWith(DomainText, LBRACKET) /\ EndsWith(DomainText, RBRACKET)))
    => LET labels == Split(DomainText, DOT)
           TooLongLabel ==
               DomainSyntaxError(
                   "Invalid syntax for domain name {}. DNS labels cannot be longer than {} characters",
                   <<DomainText, <<DNS_LABEL_MAX_LENGHT>> >>)
       IN  /\ (\E k \in 1..Len(labels) : Len(labels[k]) > DNS_LABEL_MAX_LENGHT)
                => exc.type = "DomainSyntaxError"
           /\ (\E k \in 1..Len(labels) :
                  /\ Len(labels[k]) > DNS_LABEL_MAX_LENGHT
                  /\ \A j \in 1..(k - 1) : PlainHostName(labels[j]))
                => exc = TooLongLabel
           /\ exc = TooLongLabel
                => \E k \in 1..Len(labels) : Len(labels[k]) > DNS_LABEL_MAX_LENGHT
           /\ PlainHostName(DomainText) => ret = "None"

\* a label of 64 letters in the middle of a domain was accepted
C11_Witness ==
    /\ op = "validate"
    /\ arg.tag = "str"
    /\ Count(Address, AT) > 0
    /\ Len(Split(DomainText, DOT)) = 3
    /\ Len(Split(DomainText, DOT)[2]) = DNS_LABEL_MAX_LENGHT
    /\ ret = "None"

\* the local-part starts and ends with `"`, as the dispatch of line 333 tests it
Quoted(lp) == StartsWith(lp, DQUOTE) /\ EndsWith(lp, DQUOTE)

\* the number of backslashes that stand in a row just before position i of c
BackslashesBefore(c, i) ==
    Cardinality({j \in 1..(i - 1) : \A k \in j..(i - 1) : c[k] = BACKSLASH})

\* c is legal between the quotes of a quoted string: quoted text, white
\* space, and pairs of a backslash and a character that is not a newline
LegalQuotedContent(c) ==
    \A i \in 1..Len(c) :
        IF BackslashesBefore(c, i) % 2 = 1 THEN c[i] # LF
        ELSE IF c[i] = BACKSLASH THEN i < Len(c)
        ELSE QTEXT(c[i]) \/ WSP(c[i])

MisplacedDots(t) ==
    \/ StartsWith(t, DOT)
    \/ EndsWith(t, DOT)
    \/ \E i \in 1..(Len(t) - 1) : t[i] = DOT /\ t[i + 1] = DOT

\* C14: an unquoted local-part that begins or ends with `.`, or that has two
\* or more dots in a row, is rejected with LocalPartSyntaxError (the
\* dot-placement error when it is at most 64 characters long); one made of
\* non-empty runs of atom characters separated by single dots is accepted.
C14_Dots ==
    (/\ op = "validate"
     /\ arg.tag = "str"
     /\ Count(Address, AT) > 0
     /\ Len(Address) <= EMAIL_ADDRESS_MAX_LENGTH
     /\ ~Quoted(LocalText))
    => /\ MisplacedDots(LocalText)
          => /\ exc.type = "LocalPartSyntaxError"
             /\ ~Entered("_validate_domain")
             /\ Len(LocalText) <= LOCAL_PART_MAX_LENGTH
                => exc = LocalPartSyntaxError(
                             "Invalid syntax for local part {}. Unquoted local parts cannot either begin, end, or have two or more consecutive dot . characters.",
                             <<LocalText>>)
       /\ (PlainDotAtom(LocalText) /\ Len(LocalText) <= LOCAL_PART_MAX_LENGTH)
          => /\ exc.type # "LocalPartSyntaxError"
             /\ Entered("_validate_local_part_unquoted")
             /\ Entered("_validate_domain")

\* a local-part with two dots in a row between letters was rejected for its
\* dots before the domain was looked at
C14_Witness ==
    /\ op = "validate"
    /\ arg.tag = "str"
    /\ Count(Address, AT) > 0
    /\ ~Quoted(LocalText)
    /\ MisplacedDots(LocalText)
    /\ ATEXT(LocalText[1])
    /\ ATEXT(LocalText[Len(LocalText)])
    /\ exc.type = "LocalPartSyntaxError"
    /\ ~Entered("_validate_domain")

\* the last call reported its address as valid
ReportedValid ==
    \/ op = "validate" /\ ret = "None"
    \/ op = "is_email_valid" /\ ret = "True"

\* the domain is written between square brackets, as the dispatch of line
\* 412 tests it
Bracketed(d) == StartsWith(d, LBRACKET) /\ EndsWith(d, RBRACKET)

\* C19: no address with a quoted local-part and no address whose domain is a
\* bracketed literal is reported valid by validate or is_email_valid.
C19_NoQuotedNoLiteral ==
    (ReportedValid /\ arg.tag = "str" /\ Count(Address, AT) > 0)
    => /\ ~Quoted(LocalText)
       /\ ~Bracketed(DomainText)

\* C20: whenever validate accepts an address whose local-part does not both
\* start and end with `"`, every character of that local-part is an atom
\* character or a dot.
C20_OnlyAtomText ==
    (/\ op = "validate"
     /\ ret = "None"
     /\ arg.tag = "str"
     /\ Count(Address, AT) > 0
     /\ ~Quoted(LocalText))
    => \A i \in 1..Len(LocalText) : ATEXT(LocalText[i]) \/ LocalText[i] = DOT

\* C12: on an instance used for any sequence of calls, the four limits stay
\* 254, 64, 255 and 64, and no call of validate, is_email_valid or
\* fast_validation reports an address of more than 254 characters as valid.
C12_Limits ==
    /\ email_address_max_length = 254
    /\ local_part_max_length = 64
    /\ domain_max_length = 255
    /\ dns_label_max_length = 64
    /\ (op # "none" /\ Len(Str(arg)) > 254)
       => /\ ret \notin {"None", "True"}
          /\ op = "validate" => exc = TooLongAddress

\* an address of 255 characters was refused by is_email_valid on an instance
\* that had split an earlier address
C12_Witness ==
    /\ op = "is_email_valid"
    /\ Len(Str(arg)) = EMAIL_ADDRESS_MAX_LENGTH + 1
    /\ ret = "False"
    /\ local_part # <<>>
    /\ email_address_max_length = EMAIL_ADDRESS_MAX_LENGTH

\* the exception validate(x) raises on an instance just made by
\* EmailValidator() (NoExc when it returns)
FreshError(x, seed) == validate(Frame(EmailValidator(None)), x, seed).exc

\* C15: on an instance constructed without an address and used for any
\* sequence of calls, each validate call raises what the same call raises on
\* a new instance (or returns as it does), and each is_email_valid call
\* returns what it returns on a new instance.
C15_SameAsFresh ==
    ~email_address_set_at_init
    => /\ op = "validate" => exc = FreshError(arg, hashseed)
       /\ op = "is_email_valid" => (ret = "True" <=> FreshError(arg, hashseed) = NoExc)

\* C17: the first validate() call, made without an argument on an instance
\* that was constructed with an address, raises what validate raises for
\* that address on an instance constructed without one (or returns as it
\* does).
C17_UsesInitAddress ==
    [][(/\ op = "none"
        /\ email_address_set_at_init
        /\ op' = "validate"
        /\ arg' = None)
       => exc' = FreshError(StrVal(email_address[1]), hashseed)]_vars

\* C18: whenever validate is called with None on an instance constructed
\* without an address, it raises AddressNotSetError and enters none of the
\* three checks.
C18_NoSubstitute ==
    (op = "validate" /\ arg = None /\ ~email_address_set_at_init)
    => /\ exc.type = "AddressNotSetError"
       /\ StagesRun = <<>>

\* C16: when two threads call validate with different addresses on one
\* instance, under every interleaving each call raises what validate raises
\* for its own address (or returns as it does).
C16_OwnVerdict ==
    \A t \in DOMAIN threads :
        threads[t].pc = "done" => threads[t].exc = FreshError(threads[t].arg, hashseed)

\* the characters listed by the error of the last call, when it is the error
\* of the unquoted or of the quoted local-part for invalid characters
UnquotedInvalidChars ==
    exc.msg = "Invalid syntax for unquoted local part {}. It contains the following non-valid characters: {}"
QuotedInvalidChars ==
    exc.msg = "Invalid syntax for quoted local part {}. It contains the following non-valid characters: {}"

\* C21: when a local-part is rejected for invalid characters, the characters
\* listed are exactly the distinct characters of the local-part outside the
\* atom characters and the dot (unquoted branch), and none of them is a
\* character of quoted text (quoted branch).
C21_ExactOffenders ==
    (op = "validate" /\ arg.tag = "str" /\ exc.type = "LocalPartSyntaxError")
    => /\ UnquotedInvalidChars
          => CharSet(exc.args[2]) = {c \in CharSet(LocalText) : ~(ATEXT(c) \/ c = DOT)}
       /\ QuotedInvalidChars
          => \A c \in CharSet(exc.args[2]) : c \in CharSet(LocalText) /\ ~QTEXT(c)

\* the last call raised one of the three errors that list invalid
\* characters, and the characters it lists
ListsInvalidChars ==
    \/ UnquotedInvalidChars
    \/ QuotedInvalidChars
    \/ exc.msg = "Invalid format for domain name {}. The DNS label {} contains the following non-valid characters: {}"
Listed == exc.args[Len(exc.args)]

\* the text whose characters the error lists: the local-part or the label
ListedText == exc.args[Len(exc.args) - 1]

\* each character of s is greater than the one before
Ascending(s) == \A i \in 1..(Len(s) - 1) : s[i] < s[i + 1]

\* C22 as stated: the invalid characters are listed without repetition in
\* lexicographic order, whether some or all characters of the text are
\* rejected, and the message for an address does not depend on the process
\* that validates it.
C22_Original ==
    (op = "validate" /\ arg.tag = "str" /\ ListsInvalidChars)
    => /\ Ascending(Listed)
       /\ exc = FreshError(arg, 0)
       /\ exc = FreshError(arg, 1)

\* C22, amended: the invalid characters are listed without repetition; when
\* every distinct character of the text is listed they are in sorted order
\* (when only some are, the order is the iteration order of a set, which
\* depends on the hash seed of the process); and on an instance used for any
\* sequence of calls in one process, validate raises for an address what it
\* raises for it on a new instance of that process.
C22_Order ==
    (op = "validate" /\ arg.tag = "str" /\ ListsInvalidChars)
    => /\ Len(Listed) = Cardinality(CharSet(Listed))
       /\ CharSet(Listed) \subseteq CharSet(ListedText)
       /\ CharSet(Listed) = CharSet(ListedText) => Ascending(Listed)
       /\ exc = FreshError(arg, hashseed)

\* on an instance that had split the domain of an earlier address, two of
\* the characters of a local-part were listed, the greater one first
C22_Witness ==
    /\ op = "validate"
    /\ arg.tag = "str"
    /\ ListsInvalidChars
    /\ Len(Listed) = 2
    /\ Listed[1] > Listed[2]
    /\ CharSet(Listed) # CharSet(ListedText)
    /\ dns_labels # <<>>

\* the text between the brackets of a bracketed domain
Between(d) == SubSeq(d, 2, Len(d) - 1)

\* DomainSyntaxError("Invalid domain literal syntax")
BadLiteral == DomainSyntaxError("Invalid domain literal syntax", <<>>)

ReachedLDH ==
    /\ op = "validate"
    /\ arg.tag = "str"
    /\ Count(Address, AT) > 0
    /\ Entered("_validate_domain")
    /\ ~Bracketed(DomainText)

\* d has two dots in a row
DotRun(d) == \E i \in 1..(Len(d) - 1) : d[i] = DOT /\ d[i + 1] = DOT

\* the label begins or ends with a hyphen
HyphenAtEdge(label) == StartsWith(label, HYPHEN) \/ EndsWith(label, HYPHEN)

\* C24: in the non-literal branch, a domain with two or more dots in a row
\* is rejected with the DomainSyntaxError for the dots and is not split into
\* labels; a domain without such a run in which a label begins or ends with
\* `-` is split and rejected with DomainSyntaxError, which is the error for
\* the hyphen when the labels before that one are plain.
C24_DotsAndHyphens ==
    ReachedLDH
    => LET labels == Split(DomainText, DOT)
       IN  /\ DotRun(DomainText)
              => /\ exc = DomainSyntaxError(
                              "Invalid format for domain name {}. DNS labels must be separated by a single dot . character.",
                              <<DomainText>>)
                 /\ dns_labels = <<>>
           /\ (~DotRun(DomainText) /\ \E k \in 1..Len(labels) : HyphenAtEdge(labels[k]))
              => /\ exc.type = "DomainSyntaxError"
                 /\ dns_labels = <<labels>>
           /\ (/\ ~DotRun(DomainText)
               /\ \E k \in 1..Len(labels) :
                      /\ HyphenAtEdge(labels[k])
                      /\ Len(labels[k]) <= DNS_LABEL_MAX_LENGHT
                      /\ \A j \in 1..(k - 1) : PlainHostName(labels[j]))
              => exc = DomainSyntaxError(
                           "Invalid syntax for domain name {}. DNS labels cannot either begin or end with a hyphen - character.",
                           <<DomainText>>)

\* a domain whose second label begins with a hyphen was split and rejected
C24_Witness ==
    /\ ReachedLDH
    /\ ~DotRun(DomainText)
    /\ Len(Split(DomainText, DOT)) = 2
    /\ StartsWith(Split(DomainText, DOT)[2], HYPHEN)
    /\ exc.type = "DomainSyntaxError"
    /\ dns_labels = <<Split(DomainText, DOT)>>

\* C25: whenever validate accepts an address whose domain is not bracketed,
\* every character of every label of the domain is an atom character; and
\* the error for the invalid characters of a label names a label of the
\* domain.
C25_LabelAtomText ==
    ReachedLDH
    => LET labels == Split(DomainText, DOT)
       IN  /\ ret = "None"
              => \A k \in 1..Len(labels) : \A i \in 1..Len(labels[k]) : ATEXT(labels[k][i])
           /\ exc.msg = "Invalid format for domain name {}. The DNS label {} contains the following non-valid characters: {}"
              => \E k \in 1..Len(labels) : exc.args[2] = labels[k]

\* C26: whenever validate accepts an address, its local-part is not empty,
\* its domain is not empty and, when the domain is not bracketed, none of
\* the labels of the domain is empty.
C26_NoEmptyComponent ==
    (/\ op = "validate"
     /\ arg.tag = "str"
     /\ Count(Address, AT) > 0
     /\ ret = "None")
    => /\ LocalText # <<>>
       /\ DomainText # <<>>
       /\ ~Bracketed(DomainText)
          => \A k \in 1..Len(Split(DomainText, DOT)) : Split(DomainText, DOT)[k] # <<>>

\* C27: whenever validate accepts a string, or is_email_valid returns True
\* for it, fast_validation returns True for the same string.
C27_FastRelaxesStrict ==
    (ReportedValid /\ arg.tag = "str")
    => fast_validation(arg).ret = "True"

====
